---- MODULE Spec2Model ----
(***************************************************************************)
(* Model of the execution core of pennylane_forest.qc.QuantumComputerDevice *)
(* (and of QVMDevice, whose generate_samples / reset are the same code):    *)
(* program build (apply), parameter binding, the compilation cache and      *)
(* generate_samples.  Every action is one whole call on one device.         *)
(***************************************************************************)
EXTENDS Integers, Sequences, FiniteSets, TLC

(* ------------------------------ bounds --------------------------------- *)
\* circuit hashes are 1..MaxHash
MaxHash == 2
\* identities id(param) of trainable parameter objects are 1..MaxParamId
MaxParamId == 2
\* numeric parameter values are 0..MaxVal
MaxVal == 1
\* most instructions of one circuit (operations plus diagonalizing gates)
MaxOps == 2
\* total number of qc.compile invocations explored
MaxCompiles == 2
\* apply calls explored between two resets
MaxBuilds == 1
\* number of qubits of the device (len(self.qc.qubits()))
NumQubits == 2
\* most shots in the readout data of a raw execution result
MaxShots == 2
\* most qubits of a state vector handed to mat_vec_product
MaxWires == 3
\* the amplitudes of an input state vector are 0..MaxAmp
MaxAmp == 1
\* most non-zero amplitudes of an input state vector
MaxNonzero == 2

(* --------------------------- program constants ------------------------- *)
\* self._circuit_hash = None
NoHash == 0
\* shots=1000 default of the constructor
Shots == 1000

Hashes == 1..MaxHash

(* ------------------- insertion-ordered Python dicts -------------------- *)
\* a dict is a sequence of <<key, value>> pairs in insertion order
EmptyDict == <<>>

DictKeys(d) == {d[i][1] : i \in DOMAIN d}

DictGet(d, k) == d[CHOOSE i \in DOMAIN d : d[i][1] = k][2]

\* d[k] = v: an existing key keeps its position
DictSet(d, k, v) ==
    IF k \in DictKeys(d)
    THEN [i \in DOMAIN d |-> IF d[i][1] = k THEN <<k, v>> ELSE d[i]]
    ELSE Append(d, <<k, v>>)

(* ---------------------- circuit-description inputs --------------------- *)
\* a parameter object: id is id(param), val its numeric value; the objects
\* explored are trainable, and only the first takes more than one value
Param ==
    {p \in [id : 1..MaxParamId, val : 0..MaxVal, requires_grad : {TRUE}] :
        p.id # 1 => p.val = 0}

StatePrepNames == {"QubitStateVector", "BasisState"}

\* the keys of self._operation_map
operations == {"RX", "Hadamard", "BasisState", "QubitStateVector"}

\* "Bogus" stands for any operation name that is not in the operation map
OpNames == {"RX", "BasisState", "QubitStateVector", "Bogus"}

\* the parameter objects explored for each operation name
OpParams(name) ==
    IF name = "RX" THEN Param ELSE {p \in Param : p.val = 0 /\ p.id = 1}

Operation ==
    {o \in [name : OpNames, data : {<<p>> : p \in Param}, wires : {<<0>>}] :
        o.data[1] \in OpParams(o.name)}

RECURSIVE SeqsUpTo(_, _)
SeqsUpTo(S, n) ==
    IF n = 0 THEN {<<>>}
    ELSE LET shorter == SeqsUpTo(S, n - 1)
         IN  shorter \cup {Append(s, x) : s \in {t \in shorter : Len(t) = n - 1}, x \in S}

\* two live objects with the same id are the same object
SameObjects(ops) ==
    \A i, j \in DOMAIN ops :
        ops[i].data[1].id = ops[j].data[1].id /\ ops[i].data[1].id # 0
            => ops[i].data[1] = ops[j].data[1]

OperationLists == {ops \in SeqsUpTo(Operation, MaxOps) : SameObjects(ops)}

\* circuit.diagonalizing_gates
RotationLists == {<<>>, <<[name |-> "Hadamard", data |-> <<>>, wires |-> <<0>>]>>}

\* the circuits explored: [operations, diagonalizing_gates]
Circuits ==
    {c \in [operations : OperationLists, diagonalizing_gates : RotationLists] :
        Len(c.operations) + Len(c.diagonalizing_gates) <= MaxOps}

\* how the external compiler and machine behave during one call
Faults == {"none", "compile", "run"}

(* ------------------------------ pyQuil --------------------------------- *)
\* Program(): no instructions, no memory values, one shot
EmptyProgram == [insts |-> <<>>, memory |-> EmptyDict, num_shots |-> 1]

\* p + q: a new Program with the instructions of both and the memory values
\* of p updated by those of q
RECURSIVE DictUpdate(_, _)
DictUpdate(d, e) ==
    IF e = <<>> THEN d ELSE DictUpdate(DictSet(d, e[1][1], e[1][2]), Tail(e))

ProgramAdd(p, q) ==
    [insts |-> p.insts \o q.insts,
     memory |-> DictUpdate(p.memory, q.memory),
     num_shots |-> 1]

\* p += q
ProgramIAdd(p, q) ==
    [p EXCEPT !.insts = @ \o q.insts, !.memory = DictUpdate(@, q.memory)]

\* p.declare(name, type, size) appends a DECLARE and returns MemoryReference(name)
MemoryReference(name) == [name |-> name, offset |-> 0]

Declare(p, name, type, size) ==
    [p EXCEPT !.insts = Append(@, [op |-> "DECLARE", name |-> name,
                                    type |-> type, size |-> size])]

\* p.write_memory(region_name=, value=)
WriteMemory(p, region, value) == [p EXCEPT !.memory = DictSet(@, region, value)]

Gate(name, par, qubits) == [op |-> name, params |-> par, qubits |-> qubits]

(* ------------------------------- state --------------------------------- *)
VARIABLES
    parametric_compilation, \* self.parametric_compilation
    pyqvm,                  \* "pyqvm" in self.qc.name
    active_reset,           \* self.active_reset
    dev,                    \* the mutable fields of the device (see InitDev)
    lastOp,                 \* the call that produced this state
    outcome,                \* "ok", or the error the call raised
    calls,                  \* the external calls made by that call, in order
    nCompile,               \* qc.compile invocations so far, per circuit_hash
    lastPushed,             \* the (region, value) pairs the last generate_samples pushed
    rebound,                \* that call pushed a value other than the one before it
    before,                 \* the cache and the latest executable when the call began
    readout,                \* an extract_samples call: its argument and what it returned
    tensor,                 \* a mat_vec_product call: its arguments and what it returned
    threads,                \* interleaved generate_samples calls: where each one stands
    executables             \* the memory each executable was compiled with, by its number

vars == <<parametric_compilation, pyqvm, active_reset, dev, lastOp, outcome,
          calls, nCompile, lastPushed, rebound, before, readout, tensor,
          threads, executables>>

\* no extract_samples call under way
IdleReadout ==
    [stage |-> "idle", readout_data |-> EmptyDict,
     ret |-> [err |-> "ok", value |-> <<>>]]

\* no mat_vec_product call under way
IdleTensor ==
    [stage |-> "idle", num_wires |-> 0, mat |-> <<>>, vec |-> <<>>,
     device_wire_labels |-> <<>>,
     ret |-> [err |-> "ok", out |-> <<>>, steps |-> <<>>]]

\* the generate_samples calls that may interleave on one device
NumThreads == 2

Threads == 1..NumThreads

\* no artifact: self._compiled_program = None
NoArtifact == [id |-> 0]

\* a generate_samples call that has not been entered: no executable in hand
IdleThread == [pc |-> "idle", missed |-> FALSE, exe |-> NoArtifact, ran |-> NoArtifact]

IdleThreads == [t \in Threads |-> IdleThread]

\* no executable has been compiled
NoExecutables == EmptyDict

InitDev ==
    [prog |-> EmptyProgram,
     circuit_hash |-> NoHash,
     compiled_program_dict |-> EmptyDict,
     compiled_program |-> NoArtifact,
     parameter_map |-> EmptyDict,
     parameter_reference_map |-> EmptyDict]


\* the state a call starts from and works on
Begin ==
    [dev |-> dev, calls |-> <<>>, outcome |-> "ok", nCompile |-> nCompile,
     lastPushed |-> lastPushed, rebound |-> FALSE]

(* ------------------------------- reset --------------------------------- *)
\* ForestDevice.reset: self.prog = Program()
ForestDeviceReset(d) == [d EXCEPT !.prog = EmptyProgram]

\* a slip that would drop the compiled programs on reset
resetForgetsCompiled(c) ==
    [c EXCEPT !.dev = [InitDev EXCEPT !.prog = EmptyProgram]]

\* a slip that would clear the handles but keep the values on reset
resetKeepsValues(c) ==
    LET d1 == ForestDeviceReset(c.dev)
    IN  [c EXCEPT !.dev =
            IF parametric_compilation
            THEN [d1 EXCEPT !.circuit_hash = NoHash,
                            !.parameter_reference_map = EmptyDict]
            ELSE d1]

\* QuantumComputerDevice.reset / QVMDevice.reset
reset(c) ==
    LET d1 == ForestDeviceReset(c.dev)
    IN  [c EXCEPT !.dev =
            IF parametric_compilation
            THEN [d1 EXCEPT !.circuit_hash = NoHash,
                            !.parameter_map = EmptyDict,
                            !.parameter_reference_map = EmptyDict]
            ELSE d1]

(* ------------------------------- apply --------------------------------- *)
\* self.map_wires(operation.wires).labels with the default consecutive wires
MapWires(wires) == wires

ThetaNames == <<"theta1", "theta2", "theta3", "theta4">>

\* a slip that would name the region after the value, not the identity
ParameterStringByValue(param) == ThetaNames[param.val + 1]

\* "theta" + str(id(param))
ParameterString(param) == ThetaNames[param.id]

\* a slip that would reject a state preparation at the first position too
StatePrepNotFirstOffByOne(i, name) == i >= 0 /\ name \in StatePrepNames

\* i is the 0-based index of enumerate(operations)
StatePrepNotFirst(i, name) == i > 0 /\ name \in StatePrepNames

\* getattr(param, "requires_grad", False) and operation.name != "BasisState"
IsSymbolic(param, name) == param.requires_grad /\ name # "BasisState"

\* a slip that would leave the value of a bound parameter out of the table
BindParamHandleOnly(st, name, param) ==
    IF IsSymbolic(param, name)
    THEN LET parameter_string == ParameterString(param)
             d1 == IF parameter_string \notin DictKeys(st.dev.parameter_reference_map)
                   THEN [st.dev EXCEPT
                           !.prog = Declare(@, parameter_string, "REAL", 1),
                           !.parameter_reference_map =
                               DictSet(@, parameter_string,
                                       MemoryReference(parameter_string))]
                   ELSE st.dev
         IN  [dev |-> d1,
              par |-> Append(st.par,
                             DictGet(d1.parameter_reference_map, parameter_string))]
    ELSE [st EXCEPT !.par = Append(@, param)]

\* the body of the loop over operation.data for one parameter;
\* st = [dev, par]
BindParam(st, name, param) ==
    IF IsSymbolic(param, name)
    THEN LET parameter_string == ParameterString(param)
             d1 == IF parameter_string \notin DictKeys(st.dev.parameter_reference_map)
                   THEN [st.dev EXCEPT
                           !.prog = Declare(@, parameter_string, "REAL", 1),
                           !.parameter_reference_map =
                               DictSet(@, parameter_string,
                                       MemoryReference(parameter_string))]
                   ELSE st.dev
             d2 == [d1 EXCEPT !.parameter_map =
                                DictSet(@, parameter_string, <<param.val>>)]
         IN  [dev |-> d2,
              par |-> Append(st.par,
                             DictGet(d2.parameter_reference_map, parameter_string))]
    ELSE [st EXCEPT !.par = Append(@, param)]

RECURSIVE BindParams(_, _, _, _)
BindParams(st, name, data, k) ==
    IF k > Len(data) THEN st
    ELSE BindParams(BindParam(st, name, data[k]), name, data, k + 1)

\* the loop of apply_parametric_operations from 0-based index i on;
\* d is the device, out the local Program being filled
RECURSIVE ParametricLoop(_, _, _, _)
ParametricLoop(d, out, ops, i) ==
    IF i >= Len(ops) THEN [dev |-> d, out |-> out, err |-> "ok"]
    ELSE LET operation == ops[i + 1]
             device_wires == MapWires(operation.wires)
         IN  IF StatePrepNotFirst(i, operation.name)
             THEN [dev |-> d, out |-> out, err |-> "StatePreparationOrderError"]
             ELSE LET st == BindParams([dev |-> d, par |-> <<>>],
                                       operation.name, operation.data, 1)
                  IN  IF operation.name \notin operations
                      THEN [dev |-> st.dev, out |-> out,
                            err |-> "UnsupportedOperationError"]
                      ELSE ParametricLoop(
                               st.dev,
                               [out EXCEPT !.insts =
                                   Append(@, Gate(operation.name, st.par, device_wires))],
                               ops, i + 1)

apply_parametric_operations(d, ops) == ParametricLoop(d, EmptyProgram, ops, 0)

\* ForestDevice.apply_circuit_operations: the same loop with literal parameters
RECURSIVE CircuitLoop(_, _, _, _)
CircuitLoop(d, out, ops, i) ==
    IF i >= Len(ops) THEN [dev |-> d, out |-> out, err |-> "ok"]
    ELSE LET operation == ops[i + 1]
             device_wires == MapWires(operation.wires)
         IN  IF StatePrepNotFirst(i, operation.name)
             THEN [dev |-> d, out |-> out, err |-> "StatePreparationOrderError"]
             ELSE IF operation.name \notin operations
             THEN [dev |-> d, out |-> out, err |-> "UnsupportedOperationError"]
             ELSE CircuitLoop(
                      d,
                      [out EXCEPT !.insts =
                          Append(@, Gate(operation.name, operation.data, device_wires))],
                      ops, i + 1)

apply_circuit_operations(d, ops) == CircuitLoop(d, EmptyProgram, ops, 0)

\* ForestDevice.apply_rotations: one literal instruction per rotation
apply_rotations(rotations) ==
    [EmptyProgram EXCEPT !.insts =
        [k \in DOMAIN rotations |->
            Gate(rotations[k].name, rotations[k].data, MapWires(rotations[k].wires))]]

\* self.wiring = {i: q for i, q in enumerate(self.qc.qubits())}
wiring == [i \in 0..(NumQubits - 1) |-> i]

\* sorted(self.wiring.values())
RECURSIVE SortedSeq(_)
SortedSeq(S) ==
    IF S = {} THEN <<>>
    ELSE LET m == CHOOSE x \in S : \A y \in S : x <= y
         IN  <<m>> \o SortedSeq(S \ {m})

\* the prologue Program of apply
Prologue ==
    [EmptyProgram EXCEPT !.insts =
        <<[op |-> "PRAGMA", name |-> "INITIAL_REWIRING"]>>
            \o (IF active_reset THEN <<[op |-> "RESET"]>> ELSE <<>>)]

\* a slip that would measure the qubits into the cells in reverse order
ReadoutReversed(p) ==
    LET qubits == SortedSeq({wiring[i] : i \in DOMAIN wiring})
        ro == MemoryReference("ro")
        declared == Declare(p, "ro", "BIT", Len(qubits))
    IN  [declared EXCEPT !.insts =
            @ \o [k \in 1..Len(qubits) |->
                    [op |-> "MEASURE", qubit |-> qubits[k],
                     target |-> [ro EXCEPT !.offset = Len(qubits) - k]]]]

\* the readout declaration and the measurements appended by apply
Readout(p) ==
    LET qubits == SortedSeq({wiring[i] : i \in DOMAIN wiring})
        ro == MemoryReference("ro")
        declared == Declare(p, "ro", "BIT", Len(qubits))
    IN  [declared EXCEPT !.insts =
            @ \o [k \in 1..Len(qubits) |->
                    [op |-> "MEASURE", qubit |-> qubits[k],
                     target |-> [ro EXCEPT !.offset = k - 1]]]]

\* self.parametric_compilation and "pyqvm" not in self.qc.name
IsParametricBuild == parametric_compilation /\ ~pyqvm

apply(c, ops, rotations) ==
    LET d0 == [c.dev EXCEPT !.prog = ProgramAdd(Prologue, @)]
        r  == IF IsParametricBuild
              THEN apply_parametric_operations(d0, ops)
              ELSE apply_circuit_operations(d0, ops)
        c1 == [c EXCEPT !.calls = Append(@, [ev |-> "build", operations |-> ops,
                                              rotations |-> rotations])]
    IN  IF r.err # "ok"
        THEN [c1 EXCEPT !.dev = r.dev, !.outcome = r.err]
        ELSE LET p1 == ProgramIAdd(r.dev.prog, r.out)
                 p2 == ProgramIAdd(p1, apply_rotations(rotations))
                 p3 == Readout(p2)
             IN  [c1 EXCEPT !.dev = [r.dev EXCEPT !.prog =
                                        [p3 EXCEPT !.num_shots = Shots]]]


(* -------------------------- generate_samples --------------------------- *)
\* a slip that would never report a hash
CircuitHashAlwaysAbsent(d) == NoHash

\* the circuit_hash property
CircuitHashOf(d) == IF parametric_compilation THEN d.circuit_hash ELSE NoHash

\* the compiled_program property: absent while _compiled_program is None
\* (an executable returned by the compiler is taken to be truthy)
CompiledProgramOf(d) ==
    IF d.compiled_program # NoArtifact
    THEN [absent |-> FALSE, str |-> d.compiled_program]
    ELSE [absent |-> TRUE, str |-> NoArtifact]

RECURSIVE SumOver(_, _)
SumOver(f, S) ==
    IF S = {} THEN 0
    ELSE LET x == CHOOSE y \in S : TRUE IN f[x] + SumOver(f, S \ {x})

TotalCompiles(n) == SumOver(n, DOMAIN n)

DictItems(d) == {d[i] : i \in DOMAIN d}

\* for region, value in self._parameter_map.items(): self.prog.write_memory(...)
RECURSIVE WriteItems(_, _)
WriteItems(c, items) ==
    IF items = <<>> THEN c
    ELSE WriteItems(
             [c EXCEPT !.dev.prog = WriteMemory(@, items[1][1], items[1][2]),
                       !.calls = Append(@, [ev |-> "write_memory",
                                            region |-> items[1][1],
                                            value |-> items[1][2]])],
             Tail(items))

\* a slip that would leave the values out of the program
WriteParametersSkipped(c) == c

WriteParameters(c) ==
    IF parametric_compilation THEN WriteItems(c, c.dev.parameter_map) ELSE c

\* what a generate_samples call pushes, against what the call before it pushed
Pushes(c) ==
    IF parametric_compilation THEN DictItems(c.dev.parameter_map) ELSE {}

NotePushes(c) ==
    [c EXCEPT !.lastPushed = Pushes(c),
              !.rebound = \E a \in Pushes(c), b \in c.lastPushed :
                              a[1] = b[1] /\ a[2] # b[2]]

\* the executable returned by self.qc.compile(self.prog): a fresh object,
\* told from every other by the number of the compile call that made it
CompiledArtifact(c) == [id |-> TotalCompiles(c.nCompile) + 1]

\* self.qc.compile(self.prog) while the circuit hash is h
Compile(c, h, ok) ==
    [c EXCEPT !.calls = Append(@, [ev |-> "compile", hash |-> h, ok |-> ok,
                                   exe |-> CompiledArtifact(c)]),
              !.nCompile[h] = @ + 1,
              !.outcome = IF ok THEN @ ELSE "CompileError"]

\* self.qc.run(...): of the raw program (raw) or of a compiled executable
Run(c, raw, exe, ok) ==
    [c EXCEPT !.calls = Append(@, [ev |-> "run", raw |-> raw, exe |-> exe,
                                   ok |-> ok]),
              !.outcome = IF ok THEN @ ELSE "RunError"]

\* "pyqvm" in self.qc.name
UsesRawProgramNever == FALSE

UsesRawProgram == pyqvm

\* self.circuit_hash not in self._compiled_program_dict
CacheMissAlways(d) == TRUE

CacheMiss(d) == CircuitHashOf(d) \notin DictKeys(d.compiled_program_dict)

\* return self.extract_samples(self.qc.run(self.prog))
RunRaw(c, run_ok) == Run(c, TRUE, c.dev.prog, run_ok)

\* a slip that would reuse the executable compiled before
CompileUnconditionallyOnce(c, compile_ok, run_ok) ==
    IF c.dev.compiled_program # NoArtifact
    THEN Run(c, FALSE, c.dev.compiled_program, run_ok)
    ELSE LET c1 == Compile(c, NoHash, compile_ok)
         IN  IF ~compile_ok THEN c1
             ELSE LET c2 == [c1 EXCEPT !.dev.compiled_program = CompiledArtifact(c)]
                  IN  Run(c2, FALSE, c2.dev.compiled_program, run_ok)

\* the branch "if self.circuit_hash is None"
CompileUnconditionally(c, compile_ok, run_ok) ==
    LET c1 == Compile(c, NoHash, compile_ok)
    IN  IF ~compile_ok THEN c1
        ELSE LET c2 == [c1 EXCEPT !.dev.compiled_program = CompiledArtifact(c)]
             IN  Run(c2, FALSE, c2.dev.compiled_program, run_ok)

\* a slip that would record the latest executable only when it compiles
CachedRunStaleLatest(c, compile_ok, run_ok) ==
    LET h == CircuitHashOf(c.dev)
    IN  IF CacheMiss(c.dev)
        THEN LET c1 == Compile(c, h, compile_ok)
             IN  IF ~compile_ok THEN c1
                 ELSE LET c2 == [c1 EXCEPT
                                   !.dev.compiled_program_dict =
                                       DictSet(@, h, CompiledArtifact(c)),
                                   !.dev.compiled_program = CompiledArtifact(c)]
                      IN  Run(c2, FALSE, c2.dev.compiled_program, run_ok)
        ELSE Run(c, FALSE, DictGet(c.dev.compiled_program_dict, h), run_ok)

\* a slip that would store and run the executable although compile raised
CachedRunKeepsFailed(c, compile_ok, run_ok) ==
    LET h  == CircuitHashOf(c.dev)
        c1 == IF CacheMiss(c.dev) THEN Compile(c, h, compile_ok) ELSE c
        c2 == IF CacheMiss(c.dev)
              THEN [c1 EXCEPT !.dev.compiled_program_dict =
                                  DictSet(@, h, CompiledArtifact(c))]
              ELSE c1
        c3 == [c2 EXCEPT !.dev.compiled_program =
                            DictGet(c2.dev.compiled_program_dict, h)]
    IN  Run(c3, FALSE, c3.dev.compiled_program, run_ok)

\* the cached branch: compile and insert on a miss, then fetch, record, run
CachedRun(c, compile_ok, run_ok) ==
    LET h  == CircuitHashOf(c.dev)
        c1 == IF CacheMiss(c.dev) THEN Compile(c, h, compile_ok) ELSE c
    IN  IF CacheMiss(c.dev) /\ ~compile_ok THEN c1
        ELSE LET c2 == IF CacheMiss(c.dev)
                       THEN [c1 EXCEPT !.dev.compiled_program_dict =
                                           DictSet(@, h, CompiledArtifact(c))]
                       ELSE c1
                 c3 == [c2 EXCEPT !.dev.compiled_program =
                                     DictGet(c2.dev.compiled_program_dict, h)]
             IN  Run(c3, FALSE, c3.dev.compiled_program, run_ok)

\* compile_ok / run_ok: whether the external call returns or raises
generate_samples(c0, compile_ok, run_ok) ==
    LET c == WriteParameters(NotePushes(c0))
    IN  IF UsesRawProgram THEN RunRaw(c, run_ok)
        ELSE IF CircuitHashOf(c.dev) = NoHash
        THEN CompileUnconditionally(c, compile_ok, run_ok)
        ELSE CachedRun(c, compile_ok, run_ok)

(* ------------------------------ execute -------------------------------- *)
\* QubitDevice.check_validity: every operation name is in self.operations
CheckValidity(ops) == \A i \in DOMAIN ops : ops[i].name \in operations

\* execute up to its generate_samples call: store the hash, then
\* QubitDevice.execute's check_validity and apply
ExecuteBuild(c, circuit) ==
    LET c1 == IF parametric_compilation
              THEN [c EXCEPT !.dev.circuit_hash = circuit.hash]
              ELSE c
    IN  IF ~CheckValidity(circuit.operations)
        THEN [c1 EXCEPT !.outcome = "UnsupportedOperationError"]
        ELSE apply(c1, circuit.operations, circuit.diagonalizing_gates)

\* execute: store the hash, then QubitDevice.execute (check_validity, apply,
\* generate_samples)
execute(c, circuit, compile_ok, run_ok) ==
    LET c2 == ExecuteBuild(c, circuit)
    IN  IF c2.outcome # "ok" THEN c2
        ELSE generate_samples(c2, compile_ok, run_ok)

(* ------------------------------ actions -------------------------------- *)
\* every apply call prepends one PRAGMA to self.prog
Builds(p) == Cardinality({k \in DOMAIN p.insts : p.insts[k].op = "PRAGMA"})

\* a further apply call stays within the bound
CanBuild == Builds(dev.prog) < MaxBuilds

WithinBounds(c) == TotalCompiles(c.nCompile) <= MaxCompiles

\* the call's effect on the device and on the record of the call
CommitDevice(c, op) ==
    /\ WithinBounds(c)
    /\ dev' = c.dev
    /\ calls' = c.calls
    /\ outcome' = c.outcome
    /\ nCompile' = c.nCompile
    /\ lastPushed' = c.lastPushed
    /\ rebound' = c.rebound
    /\ before' = [compiled_program_dict |-> dev.compiled_program_dict,
                  compiled_program |-> dev.compiled_program]
    /\ lastOp' = op
    /\ UNCHANGED <<parametric_compilation, pyqvm, active_reset, readout, tensor,
                   threads>>

Commit(c, op) == CommitDevice(c, op) /\ UNCHANGED executables

\* the device after __init__, which ends with reset()
InitDevice ==
    /\ parametric_compilation \in BOOLEAN
    /\ pyqvm \in BOOLEAN
    /\ active_reset \in BOOLEAN
    /\ dev = InitDev
    /\ lastOp = "init"
    /\ outcome = "ok"
    /\ calls = <<>>
    /\ nCompile = [h \in 0..MaxHash |-> 0]
    /\ lastPushed = {}
    /\ rebound = FALSE
    /\ before = [compiled_program_dict |-> EmptyDict,
                 compiled_program |-> NoArtifact]

Init ==
    /\ InitDevice
    /\ readout = IdleReadout
    /\ tensor = IdleTensor
    /\ threads = IdleThreads
    /\ executables = NoExecutables

Reset == Commit(reset(Begin), "reset")

Apply ==
    /\ CanBuild
    /\ \E c \in Circuits :
        Commit(apply(Begin, c.operations, c.diagonalizing_gates), "apply")

GenerateSamples ==
    \E fault \in Faults :
        Commit(generate_samples(Begin, fault # "compile", fault # "run"),
               "generate_samples")

Execute ==
    /\ CanBuild
    /\ \E h \in Hashes, c \in Circuits, fault \in Faults :
        Commit(execute(Begin,
                       [hash |-> h, operations |-> c.operations,
                        diagonalizing_gates |-> c.diagonalizing_gates],
                       fault # "compile", fault # "run"),
               "execute")

Next == Reset \/ Apply \/ GenerateSamples \/ Execute

Spec == Init /\ [][Next]_vars


(* ========================= properties of the calls ====================== *)
BuildErrors == {"StatePreparationOrderError", "UnsupportedOperationError"}

EventsIn(cs, kind) == {k \in DOMAIN cs : cs[k].ev = kind}

EventsOf(kind) == EventsIn(calls, kind)

\* the last call reached generate_samples
SamplesCalled ==
    \/ lastOp = "generate_samples"
    \/ lastOp = "execute" /\ outcome \notin BuildErrors

Cache == dev.compiled_program_dict

CachedBefore(h) == h \in DictKeys(before.compiled_program_dict)

EntriesKept ==
    \A h \in DictKeys(before.compiled_program_dict) :
        /\ h \in DictKeys(Cache)
        /\ DictGet(Cache, h) = DictGet(before.compiled_program_dict, h)

(* ------------------------------- C1 ------------------------------------ *)
\* C1 as stated: on a non-pyqvm machine with parametric compilation, compile
\* is invoked at most once for each circuit hash.
C1_CompileInvokedOncePerHash ==
    (parametric_compilation /\ ~pyqvm) => \A h \in Hashes : nCompile[h] <= 1

\* C1 amended: on a non-pyqvm machine with parametric compilation, a call
\* invokes compile at most once for a hash and never for a hash that was in
\* the cache when the call began; a compile that returns is entered in the
\* cache under that hash, and a cached hash stays cached.  So compile returns
\* at most once per hash, and is invoked again only after it raised.
C1_CompileReturnsOncePerHash ==
    (parametric_compilation /\ ~pyqvm) =>
        \A h \in Hashes :
            LET cs == {k \in EventsOf("compile") : calls[k].hash = h}
            IN  /\ Cardinality(cs) <= 1
                /\ CachedBefore(h) => cs = {} /\ h \in DictKeys(Cache)
                /\ \A k \in cs : calls[k].ok =>
                       /\ h \in DictKeys(Cache)
                       /\ DictGet(Cache, h) = calls[k].exe

\* a run for a cached hash with a changed parameter value and no compile
C1_Witness ==
    /\ parametric_compilation /\ ~pyqvm
    /\ \E h \in Hashes :
        /\ CircuitHashOf(dev) = h /\ CachedBefore(h) /\ nCompile[h] = 1
    /\ rebound
    /\ EventsOf("run") # {} /\ EventsOf("compile") = {}

(* ------------------------------- C2 ------------------------------------ *)
\* C2: every cache entry present when a call began is still there with the
\* same artifact when it ends, whatever the call and whether it failed;
\* reset leaves the latest-compiled artifact as it was; compiled_program
\* is never absent again once it was present.
C2_CacheEntriesPersist ==
    /\ EntriesKept
    /\ lastOp = "reset" => dev.compiled_program = before.compiled_program
    /\ before.compiled_program # NoArtifact => ~CompiledProgramOf(dev).absent

\* a reset of a device that holds compiled programs
C2_Witness ==
    /\ lastOp = "reset"
    /\ Cache # EmptyDict
    /\ ~CompiledProgramOf(dev).absent


(* ------------------------------- C3 ------------------------------------ *)
WritesComeFirst ==
    \A w \in EventsOf("write_memory"),
       k \in EventsOf("compile") \cup EventsOf("run") : w < k

BoundValuesPushed ==
    \A i \in DOMAIN dev.parameter_map :
        LET region == dev.parameter_map[i][1]
            value  == dev.parameter_map[i][2]
        IN  /\ \E w \in EventsOf("write_memory") :
                   calls[w].region = region /\ calls[w].value = value
            /\ region \in DictKeys(dev.prog.memory)
            /\ DictGet(dev.prog.memory, region) = value

\* a step enters or changes a value of the binding table
Binds ==
    \E i \in DOMAIN dev'.parameter_map :
        LET region == dev'.parameter_map[i][1]
        IN  \/ region \notin DictKeys(dev.parameter_map)
            \/ DictGet(dev.parameter_map, region) # dev'.parameter_map[i][2]

C4_PyqvmRunsRawProgram ==
    pyqvm =>
        /\ TotalCompiles(nCompile) = 0
        /\ Cache = before.compiled_program_dict
        /\ dev.compiled_program = before.compiled_program
        /\ SamplesCalled =>
            /\ EventsOf("compile") = {}
            /\ Cardinality(EventsOf("run")) = 1
            /\ \A r \in EventsOf("run") : calls[r].raw /\ calls[r].exe = dev.prog

\* a run on a pyqvm machine with parametric compilation and a hash set
C4_Witness ==
    /\ pyqvm /\ parametric_compilation
    /\ dev.circuit_hash # NoHash
    /\ SamplesCalled /\ outcome = "ok"
    /\ EventsOf("run") # {}

(* ------------------------------- C5 ------------------------------------ *)
\* C5: on a non-pyqvm machine, a generate_samples call that finds
\* circuit_hash absent invokes compile exactly once, on every such call; the
\* executable it returns is a new one, is recorded as the latest-compiled
\* artifact and is the one run; the cache is left as it was.
C5_NoHashCompilesEveryCall ==
    (~pyqvm /\ SamplesCalled /\ CircuitHashOf(dev) = NoHash) =>
        /\ Cardinality(EventsOf("compile")) = 1
        /\ Cache = before.compiled_program_dict
        /\ \A k \in EventsOf("compile") :
            /\ calls[k].hash = NoHash
            /\ calls[k].exe # before.compiled_program
            /\ calls[k].exe \notin {kv[2] : kv \in DictItems(Cache)}
            /\ calls[k].ok =>
                /\ dev.compiled_program = calls[k].exe
                /\ Cardinality(EventsOf("run")) = 1
                /\ \A r \in EventsOf("run") :
                       r > k /\ ~calls[r].raw /\ calls[r].exe = calls[k].exe
            /\ ~calls[k].ok =>
                /\ dev.compiled_program = before.compiled_program
                /\ EventsOf("run") = {}

\* the second of two calls that both compiled without a hash
C5_Witness ==
    /\ ~pyqvm /\ SamplesCalled /\ CircuitHashOf(dev) = NoHash
    /\ nCompile[NoHash] = 2
    /\ before.compiled_program # NoArtifact
    /\ outcome = "ok"

(* ------------------------------- C6 ------------------------------------ *)
\* C6: on a non-pyqvm machine with circuit_hash h present, generate_samples
\* invokes compile exactly when h was not in the cache, inserts nothing but
\* the entry for h, and whenever it calls run, the executable run is
\* cache[h] and so is the latest-compiled artifact.
C6_CachedBranchRunsCacheEntry ==
    (~pyqvm /\ SamplesCalled /\ CircuitHashOf(dev) # NoHash) =>
        LET h == CircuitHashOf(dev)
        IN  /\ (EventsOf("compile") # {}) <=> ~CachedBefore(h)
            /\ Cardinality(EventsOf("compile")) <= 1
            /\ \A k \in EventsOf("compile") : calls[k].hash = h
            /\ DictKeys(Cache) \subseteq
                   DictKeys(before.compiled_program_dict) \cup {h}
            /\ outcome # "CompileError" =>
                /\ h \in DictKeys(Cache)
                /\ Cardinality(EventsOf("run")) = 1
                /\ dev.compiled_program = DictGet(Cache, h)
            /\ \A r \in EventsOf("run") :
                /\ h \in DictKeys(Cache)
                /\ ~calls[r].raw
                /\ calls[r].exe = DictGet(Cache, h)

\* a cache hit that brings back an executable other than the latest one
C6_Witness ==
    /\ ~pyqvm /\ SamplesCalled /\ CircuitHashOf(dev) # NoHash
    /\ CachedBefore(CircuitHashOf(dev))
    /\ before.compiled_program # NoArtifact
    /\ before.compiled_program # dev.compiled_program
    /\ EventsOf("run") # {}


(* ------------------------------- C7 ------------------------------------ *)
\* the operation list handed to the build of the last call
BuiltOps(b) == calls[b].operations

Misplaced(ops, i) == i >= 2 /\ ops[i].name \in StatePrepNames

Unsupported(ops, i) == ops[i].name \notin operations

\* C7 as stated: a build with a state preparation at a position other than
\* the first fails with the state-preparation-order error, and a build whose
\* state preparation is the first instruction succeeds.
C7_StatePrepOrder ==
    \A b \in EventsOf("build") :
        LET ops == BuiltOps(b)
        IN  /\ (\E i \in DOMAIN ops : Misplaced(ops, i))
                   => outcome = "StatePreparationOrderError"
            /\ (/\ ops # <<>>
                /\ ops[1].name \in StatePrepNames
                /\ \A i \in DOMAIN ops : ~Misplaced(ops, i))
                   => outcome \notin BuildErrors

\* C7 amended: the build fails at the first operation that is a misplaced
\* state preparation or is unsupported.  It fails with the
\* state-preparation-order error when that operation is a state preparation
\* at a position other than the first (so whenever every operation before the
\* misplaced one is supported), with the unsupported-operation error when it
\* is an unsupported operation, and it succeeds when there is no such
\* operation: a state preparation as first instruction, followed by supported
\* operations that are no state preparations, builds.
C7_StatePrepOrderFirstFailure ==
    \A b \in EventsOf("build") :
        LET ops == BuiltOps(b)
            failing == {i \in DOMAIN ops : Misplaced(ops, i) \/ Unsupported(ops, i)}
        IN  IF failing = {}
            THEN outcome \notin BuildErrors
            ELSE LET first == CHOOSE i \in failing : \A j \in failing : i <= j
                 IN  IF Misplaced(ops, first)
                     THEN outcome = "StatePreparationOrderError"
                     ELSE outcome = "UnsupportedOperationError"

\* a build that met a state preparation as its second operation
C7_Witness ==
    \E b \in EventsOf("build") :
        /\ Len(BuiltOps(b)) = 2
        /\ BuiltOps(b)[1].name \in operations
        /\ BuiltOps(b)[2].name \in StatePrepNames
        /\ outcome = "StatePreparationOrderError"

(* ------------------------------- C8 ------------------------------------ *)
\* C8 as stated: a build over a sequence that holds an unsupported operation
\* fails with the unsupported-operation error and leaves both mappings of the
\* Parameter Binding Table as they were before the build.
C8_UnsupportedLeavesBindingTable ==
    [][\A b \in EventsIn(calls', "build") :
          (\E i \in DOMAIN calls'[b].operations :
               Unsupported(calls'[b].operations, i))
          => /\ outcome' = "UnsupportedOperationError"
             /\ dev'.parameter_map = dev.parameter_map
             /\ dev'.parameter_reference_map = dev.parameter_reference_map]_vars

(* ------------------------------- C9 ------------------------------------ *)
\* C9: a failing build, compile or run ends the call at once: nothing is
\* called after the failing call and nothing is called twice; every cache
\* entry there was before the call is still there, unchanged; a failed
\* compile inserts nothing and leaves the latest-compiled artifact, so the
\* hash is still uncached and the next evaluation with it compiles again.
C9_FailurePropagatesCacheIntact ==
    /\ EntriesKept
    /\ Cardinality(EventsOf("compile")) <= 1
    /\ Cardinality(EventsOf("run")) <= 1
    /\ outcome \in BuildErrors =>
        EventsOf("compile") = {} /\ EventsOf("run") = {}
    /\ outcome = "CompileError" =>
        /\ EventsOf("run") = {}
        /\ \E k \in EventsOf("compile") : k = Len(calls) /\ ~calls[k].ok
        /\ Cache = before.compiled_program_dict
        /\ dev.compiled_program = before.compiled_program
        /\ CircuitHashOf(dev) \notin DictKeys(Cache)
    /\ outcome = "RunError" =>
        \E r \in EventsOf("run") : r = Len(calls) /\ ~calls[r].ok
    /\ outcome = "ok" =>
        \A k \in DOMAIN calls : calls[k].ev \in {"compile", "run"} => calls[k].ok
    /\ (SamplesCalled /\ ~pyqvm /\ ~CachedBefore(CircuitHashOf(dev))) =>
        EventsOf("compile") # {}

\* an evaluation that compiled a hash whose earlier compile had raised
C9_Witness ==
    /\ outcome = "ok"
    /\ \E k \in EventsOf("compile") :
        /\ calls[k].hash # NoHash
        /\ nCompile[calls[k].hash] = 2
        /\ calls[k].hash \in DictKeys(Cache)

(* ------------------------------- C10 ----------------------------------- *)
IsOpGate(inst) == inst.op \in OpNames

\* the instructions the last build emitted for its operations, in order
BuiltGates(b) ==
    LET gates == SelectSeq(dev.prog.insts, IsOpGate)
        n == Len(BuiltOps(b))
    IN  SubSeq(gates, Len(gates) - n + 1, Len(gates))

IsHandle(x) == DOMAIN x = {"name", "offset"}

Declarations(region) ==
    {k \in DOMAIN dev.prog.insts :
        /\ dev.prog.insts[k].op = "DECLARE"
        /\ dev.prog.insts[k].name = region}

\* C10: in a parametric build every differentiable parameter that is bound is
\* replaced by a handle; two of them have the same handle exactly when they
\* are the same object, whatever their values; the handle mapping holds one
\* handle for each identity, and its region is declared exactly once in the
\* program.
C10_OneHandlePerIdentity ==
    /\ Cardinality(DictKeys(dev.parameter_reference_map))
           = Len(dev.parameter_reference_map)
    /\ \A i \in DOMAIN dev.parameter_reference_map :
        LET region == dev.parameter_reference_map[i][1]
        IN  /\ dev.parameter_reference_map[i][2].name = region
            /\ Cardinality(Declarations(region)) = 1
    /\ \A b \in EventsOf("build") :
        (IsParametricBuild /\ outcome \notin BuildErrors) =>
            LET ops == BuiltOps(b)
                gates == BuiltGates(b)
                bound == {i \in DOMAIN ops :
                             /\ ops[i].data[1].requires_grad
                             /\ ops[i].name # "BasisState"}
            IN  /\ \A i \in bound :
                    /\ IsHandle(gates[i].params[1])
                    /\ gates[i].params[1] =
                           DictGet(dev.parameter_reference_map,
                                   gates[i].params[1].name)
                /\ \A i, j \in bound :
                    (gates[i].params[1] = gates[j].params[1])
                        <=> (ops[i].data[1].id = ops[j].data[1].id)

\* a build of two operations that share one parameter object
C10_Witness ==
    \E b \in EventsOf("build") :
        /\ IsParametricBuild /\ outcome \notin BuildErrors
        /\ Len(BuiltOps(b)) = 2
        /\ BuiltOps(b)[1].data[1] = BuiltOps(b)[2].data[1]
        /\ IsHandle(BuiltGates(b)[1].params[1])
        /\ BuiltGates(b)[1].params[1] = BuiltGates(b)[2].params[1]

\* a build of two operations with equal values in distinct parameter objects
C10_WitnessDistinct ==
    \E b \in EventsOf("build") :
        /\ IsParametricBuild /\ outcome \notin BuildErrors
        /\ Len(BuiltOps(b)) = 2
        /\ BuiltOps(b)[1].data[1].id # BuiltOps(b)[2].data[1].id
        /\ BuiltOps(b)[1].data[1].val = BuiltOps(b)[2].data[1].val
        /\ BuiltGates(b)[1].params[1] # BuiltGates(b)[2].params[1]


(* ======================== sample extraction ============================ *)
\* memory regions a raw execution result may hold data for
RegisterNames == {"ro", "theta1"}

\* the data of one register: one row of bits per shot
SampleArrays == SeqsUpTo({<<0>>, <<1>>}, MaxShots)

\* execution_results.readout_data: a mapping from register name to data
ReadoutData ==
    {d \in SeqsUpTo(RegisterNames \X SampleArrays, Cardinality(RegisterNames)) :
        Cardinality(DictKeys(d)) = Len(d)}

\* a slip that would index the mapping instead of using get with a default
extract_samples_indexing(readout_data) ==
    IF "ro" \in DictKeys(readout_data)
    THEN [err |-> "ok", value |-> DictGet(readout_data, "ro")]
    ELSE [err |-> "KeyError", value |-> <<>>]

\* return execution_results.readout_data.get("ro", [])
extract_samples(readout_data) ==
    IF "ro" \in DictKeys(readout_data)
    THEN [err |-> "ok", value |-> DictGet(readout_data, "ro")]
    ELSE [err |-> "ok", value |-> <<>>]

ExtractSamples ==
    /\ readout.stage = "input"
    /\ readout' = [readout EXCEPT !.stage = "returned",
                                  !.ret = extract_samples(readout.readout_data)]
    /\ UNCHANGED <<parametric_compilation, pyqvm, active_reset, dev, lastOp,
                   outcome, calls, nCompile, lastPushed, rebound, before, tensor,
                   threads, executables>>

ReadoutInputs ==
    {[IdleReadout EXCEPT !.stage = "input", !.readout_data = d] : d \in ReadoutData}

(* ========================= tensor contraction ========================== *)
RECURSIVE Pow2(_)
Pow2(k) == IF k = 0 THEN 1 ELSE 2 * Pow2(k - 1)

Range(seq) == {seq[i] : i \in DOMAIN seq}

\* the position (1-based) of value v in a sequence of distinct values
PosOf(seq, v) == CHOOSE m \in DOMAIN seq : seq[m] = v

\* the multi-indices of an array of shape [2] * r
Bits(r) == [1..r -> {0, 1}]

\* C-order flat index (0-based) of a multi-index: the first axis is the most
\* significant
RECURSIVE FlatIndex(_)
FlatIndex(b) ==
    IF Len(b) = 0 THEN 0
    ELSE 2 * FlatIndex(SubSeq(b, 1, Len(b) - 1)) + b[Len(b)]

\* mat.shape of a two-dimensional array given as a sequence of rows
Shape(mat) == <<Len(mat), Len(mat[1])>>

\* the elements of a two-dimensional array in C order
Ravel(mat) ==
    LET cols == Len(mat[1])
    IN  [i \in 1..(Len(mat) * cols) |->
            mat[((i - 1) \div cols) + 1][((i - 1) % cols) + 1]]

\* np.reshape(flat, [2] * r)
Reshape(flat, r) == [b \in Bits(r) |-> flat[FlatIndex(b) + 1]]

\* np.reshape(t, 2 ** r) of an array of shape [2] * r
Flatten(t, r) ==
    [i \in 1..Pow2(r) |->
        t[CHOOSE b \in Bits(r) : FlatIndex(b) = i - 1]]

\* the axes 0..r-1 that are not in axes, ascending
FreeAxes(r, axes) == SortedSeq((0..(r - 1)) \ Range(axes))

\* np.tensordot(a, b, axes=(axes_a, axes_b)) for arrays of shape [2] * ra and
\* [2] * rb: sums over the paired axes; the result has the free axes of a,
\* in order, followed by the free axes of b, in order
Tensordot(a, ra, b, rb, axes_a, axes_b) ==
    LET c == Len(axes_a)
        free_a == FreeAxes(ra, axes_a)
        free_b == FreeAxes(rb, axes_b)
        IndexA(idx, sm) ==
            [x \in 1..ra |->
                IF (x - 1) \in Range(axes_a)
                THEN sm[PosOf(axes_a, x - 1)]
                ELSE idx[PosOf(free_a, x - 1)]]
        IndexB(idx, sm) ==
            [x \in 1..rb |->
                IF (x - 1) \in Range(axes_b)
                THEN sm[PosOf(axes_b, x - 1)]
                ELSE idx[Len(free_a) + PosOf(free_b, x - 1)]]
    IN  [idx \in Bits(Len(free_a) + Len(free_b)) |->
            SumOver([sm \in Bits(c) |-> a[IndexA(idx, sm)] * b[IndexB(idx, sm)]],
                    Bits(c))]

\* np.transpose(t, axes): axis i of the result is axis axes[i] of t
Transpose(t, r, axes) ==
    [idx \in Bits(r) |-> t[[x \in 1..r |-> idx[PosOf(axes, x - 1)]]]]

\* np.argsort of a sequence of distinct integers (0-based indices)
Argsort(seq) ==
    LET sorted == SortedSeq(Range(seq))
    IN  [i \in DOMAIN seq |-> PosOf(seq, sorted[i]) - 1]

\* a slip that would list the untouched qubits in descending order
unused_idxs_descending(num_wires, device_wire_labels) ==
    LET up == FreeAxes(num_wires, device_wire_labels)
    IN  [i \in DOMAIN up |-> up[Len(up) + 1 - i]]

\* [idx for idx in range(self.num_wires) if idx not in device_wire_labels]
unused_idxs(num_wires, device_wire_labels) ==
    FreeAxes(num_wires, device_wire_labels)

\* a slip that would transpose by the permutation itself
inv_perm_not_inverted(perm) == perm

\* inv_perm = np.argsort(perm)
inv_perm(perm) == Argsort(perm)

\* a slip that would return the contraction result without the transposition
transpose_skipped(tdot, self_num_wires, device_wire_labels) == tdot

\* the tail of mat_vec_product: undo the relocation of the contracted axes
restore_axis_order(tdot, self_num_wires, device_wire_labels) ==
    LET perm == device_wire_labels
                    \o unused_idxs(self_num_wires, device_wire_labels)
    IN  Transpose(tdot, self_num_wires, inv_perm(perm))

\* a slip that would compare the number of rows only
ShapeMismatchRowsOnly(mat, num_wires) == Len(mat) # Pow2(num_wires)

\* mat.shape != (2**num_wires, 2**num_wires), num_wires the number of targets
ShapeMismatch(mat, num_wires) == Shape(mat) # <<Pow2(num_wires), Pow2(num_wires)>>

\* np.arange(len(device_wire_labels), 2 * len(device_wire_labels))
MatrixAxes(k) == [i \in 1..k |-> k + i - 1]

\* mat_vec_product on a device of self_num_wires qubits; steps records the
\* array operations performed, in order
mat_vec_product(mat, vec, device_wire_labels, self_num_wires) ==
    LET num_wires == Len(device_wire_labels)
    IN  IF ShapeMismatch(mat, num_wires)
        THEN [err |-> "ValueError", out |-> <<>>, steps |-> <<>>]
        ELSE LET mat_t == Reshape(Ravel(mat), 2 * num_wires)
                 vec_t == Reshape(vec, self_num_wires)
                 tdot == Tensordot(mat_t, 2 * num_wires, vec_t, self_num_wires,
                                   MatrixAxes(num_wires), device_wire_labels)
                 state_multi_index ==
                     restore_axis_order(tdot, self_num_wires, device_wire_labels)
             IN  [err |-> "ok",
                  out |-> Flatten(state_multi_index, self_num_wires),
                  steps |-> <<"reshape", "reshape", "tensordot", "transpose",
                              "reshape">>]

(* ------------------- inputs of the contraction ------------------------- *)
\* the matrix of the permutation c -> pi[c] of the basis states
PermMatrix(pi) ==
    [r \in DOMAIN pi |-> [c \in DOMAIN pi |-> IF pi[c] = r THEN 1 ELSE 0]]

Identity(dim) == [r \in 1..dim |-> [c \in 1..dim |-> IF r = c THEN 1 ELSE 0]]

PauliX == PermMatrix(<<2, 1>>)
Shear == <<<<1, 1>>, <<0, 1>>>>
ShearInv == <<<<1, -1>>, <<0, 1>>>>
SWAP == PermMatrix(<<1, 3, 2, 4>>)
CNOT == PermMatrix(<<1, 2, 4, 3>>)
Cycle4 == PermMatrix(<<2, 3, 4, 1>>)
Cycle4Inv == PermMatrix(<<4, 1, 2, 3>>)
Toffoli == PermMatrix(<<1, 2, 3, 4, 5, 6, 8, 7>>)
Rect2x4 == <<<<1, 0, 0, 0>>, <<0, 1, 0, 0>>>>

\* the operator matrices explored: invertible ones of one, two and three
\* qubits, and one that is not square
Matrices ==
    {PauliX, Shear, ShearInv, SWAP, CNOT, Cycle4, Cycle4Inv, Toffoli, Rect2x4}

MatMul(a, b) ==
    [r \in DOMAIN a |->
        [c \in DOMAIN b[1] |->
            SumOver([m \in DOMAIN b |-> a[r][m] * b[m][c]], DOMAIN b)]]

IsInverse(a, b) ==
    /\ Shape(a) = Shape(b)
    /\ Len(a) = Len(a[1])
    /\ MatMul(a, b) = Identity(Len(a))
    /\ MatMul(b, a) = Identity(Len(a))

Invertible(mat) == \E inv \in Matrices : IsInverse(mat, inv)

Inverse(mat) == CHOOSE inv \in Matrices : IsInverse(mat, inv)

\* ordered lists of distinct target qubits of an n-qubit device
TargetLists(n) ==
    {w \in SeqsUpTo(0..(n - 1), n) : w # <<>> /\ Cardinality(Range(w)) = Len(w)}

\* state vectors of n qubits: basis states and sums of a few of them
Vectors(n) ==
    {v \in [1..Pow2(n) -> 0..MaxAmp] :
        Cardinality({i \in DOMAIN v : v[i] # 0}) <= MaxNonzero}

\* the vector has the size of the device, the targets are qubits of it
TensorInputs ==
    UNION {{[IdleTensor EXCEPT !.stage = "input", !.num_wires = n, !.mat = m,
                               !.vec = v, !.device_wire_labels = w] :
                m \in Matrices, v \in Vectors(n), w \in TargetLists(n)} :
           n \in 1..MaxWires}

(* --------------------- the calls of the two functions ------------------ *)
DeviceUnchanged ==
    UNCHANGED <<parametric_compilation, pyqvm, active_reset, dev, lastOp,
                outcome, calls, nCompile, lastPushed, rebound, before,
                threads, executables>>

\* mat_vec_product(mat, vec, device_wire_labels)
MatVecProduct ==
    /\ tensor.stage = "input"
    /\ tensor' = [tensor EXCEPT
                    !.stage = "applied",
                    !.ret = mat_vec_product(tensor.mat, tensor.vec,
                                            tensor.device_wire_labels,
                                            tensor.num_wires)]
    /\ DeviceUnchanged /\ UNCHANGED readout

\* mat_vec_product(inverse of mat, result of the first call, device_wire_labels)
MatVecProductInverse ==
    /\ tensor.stage = "applied"
    /\ tensor.ret.err = "ok"
    /\ Invertible(tensor.mat)
    /\ tensor' = [tensor EXCEPT
                    !.stage = "inverted",
                    !.ret = mat_vec_product(Inverse(tensor.mat), tensor.ret.out,
                                            tensor.device_wire_labels,
                                            tensor.num_wires)]
    /\ DeviceUnchanged /\ UNCHANGED readout

\* the two functions read nothing of the device but self.num_wires: they are
\* called here on a device as constructed, with one call under way
InitFunctions ==
    /\ InitDevice
    /\ parametric_compilation /\ ~pyqvm /\ ~active_reset
    /\ \/ readout \in ReadoutInputs /\ tensor = IdleTensor
       \/ readout = IdleReadout /\ tensor \in TensorInputs
    /\ threads = IdleThreads
    /\ executables = NoExecutables

NextFunctions == ExtractSamples \/ MatVecProduct \/ MatVecProductInverse

SpecFunctions == InitFunctions /\ [][NextFunctions]_vars

(* ------------------------------- C11 ----------------------------------- *)
\* C11: extract_samples never raises; it returns the contents of the register
\* named "ro" when the raw result has that register, and an empty sequence
\* when it has not.
C11_ExtractReturnsRoOrEmpty ==
    readout.stage = "returned" =>
        /\ readout.ret.err = "ok"
        /\ IF \E i \in DOMAIN readout.readout_data : readout.readout_data[i][1] = "ro"
           THEN \E i \in DOMAIN readout.readout_data :
                    readout.readout_data[i] = <<"ro", readout.ret.value>>
           ELSE readout.ret.value = <<>>

\* an extraction from a raw result that holds data, but none for "ro"
C11_Witness ==
    /\ readout.stage = "returned"
    /\ readout.readout_data # EmptyDict
    /\ "ro" \notin DictKeys(readout.readout_data)
    /\ readout.ret = [err |-> "ok", value |-> <<>>]


(* ------------------------------- C12 ----------------------------------- *)
\* the basis state of n qubits with bits b, first qubit most significant
BasisVector(n, b) == [i \in 1..Pow2(n) |-> IF i - 1 = FlatIndex(b) THEN 1 ELSE 0]

FlipBit(b, q) == [b EXCEPT ![q + 1] = 1 - @]

\* C12: Pauli-X applied to qubit q of a computational basis state gives the
\* basis state with bit q flipped and every other bit unchanged, the first
\* qubit being the most significant bit of the index; on the 2-qubit state
\* [1,0,0,0], target 0 gives [0,0,1,0] and target 1 gives [0,1,0,0].
C12_PauliXFlipsTargetBit ==
    (/\ tensor.stage = "applied"
     /\ tensor.mat = PauliX
     /\ Len(tensor.device_wire_labels) = 1) =>
        LET n == tensor.num_wires
            q == tensor.device_wire_labels[1]
        IN  /\ tensor.ret.err = "ok"
            /\ \A b \in Bits(n) :
                tensor.vec = BasisVector(n, b)
                    => tensor.ret.out = BasisVector(n, FlipBit(b, q))
            /\ (n = 2 /\ tensor.vec = <<1, 0, 0, 0>> /\ q = 0)
                    => tensor.ret.out = <<0, 0, 1, 0>>
            /\ (n = 2 /\ tensor.vec = <<1, 0, 0, 0>> /\ q = 1)
                    => tensor.ret.out = <<0, 1, 0, 0>>

\* Pauli-X applied to qubit 0 of the 2-qubit state [1,0,0,0]
C12_Witness ==
    /\ tensor.stage = "applied"
    /\ tensor.mat = PauliX
    /\ tensor.num_wires = 2
    /\ tensor.device_wire_labels = <<0>>
    /\ tensor.vec = <<1, 0, 0, 0>>
    /\ tensor.ret.out = <<0, 0, 1, 0>>

(* ------------------------------- C13 ----------------------------------- *)
\* C13: applying an invertible operator and then its inverse to the same
\* ordered list of distinct target qubits, ascending or not, gives back the
\* original state.
C13_InverseRoundTrip ==
    tensor.stage = "inverted" =>
        /\ tensor.ret.err = "ok"
        /\ tensor.ret.out = tensor.vec

\* a round trip of an operator that is not its own inverse over targets that
\* are not in ascending order
C13_Witness ==
    /\ tensor.stage = "inverted"
    /\ tensor.mat = Cycle4
    /\ tensor.num_wires = 3
    /\ tensor.device_wire_labels = <<2, 0>>
    /\ \E i \in DOMAIN tensor.vec : tensor.vec[i] # 0
    /\ tensor.ret.out = tensor.vec

(* ------------------------------- C14 ----------------------------------- *)
\* C14: mat_vec_product fails with the dimension-mismatch error exactly when
\* the matrix is not 2^k x 2^k for k target qubits, and then it has performed
\* no reshape and no contraction.
C14_ShapeCheckedFirst ==
    tensor.stage = "applied" =>
        LET k == Len(tensor.device_wire_labels)
            rows == Len(tensor.mat)
            cols == Len(tensor.mat[1])
            matches == rows = 2^k /\ cols = 2^k
        IN  /\ (tensor.ret.err = "ValueError") <=> ~matches
            /\ ~matches => tensor.ret.steps = <<>> /\ tensor.ret.out = <<>>
            /\ matches => tensor.ret.err = "ok"

\* a 4x4 matrix with a single target qubit
C14_Witness ==
    /\ tensor.stage = "applied"
    /\ tensor.mat = SWAP
    /\ Len(tensor.device_wire_labels) = 1
    /\ tensor.ret.err = "ValueError"
    /\ tensor.ret.steps = <<>>


(* ------------------------------- C19 ----------------------------------- *)
\* the operator mat acting on the target qubits (the first target being the
\* most significant bit of the matrix index) and the identity on every other
\* qubit, written out amplitude by amplitude
ActsOnTargets(mat, vec, targets, n) ==
    [i \in 1..Pow2(n) |->
        LET b == CHOOSE x \in Bits(n) : FlatIndex(x) = i - 1
            row == FlatIndex([m \in DOMAIN targets |-> b[targets[m] + 1]])
            WithTargets(j) ==
                [x \in 1..n |->
                    IF (x - 1) \in Range(targets)
                    THEN j[PosOf(targets, x - 1)]
                    ELSE b[x]]
        IN  SumOver([j \in Bits(Len(targets)) |->
                        mat[row + 1][FlatIndex(j) + 1]
                            * vec[FlatIndex(WithTargets(j)) + 1]],
                    Bits(Len(targets)))]

\* C19: the targets followed by the untouched qubits are a permutation of
\* 0..n-1 whose untouched part ascends; the argsort of that list sends
\* position q to the place where the list holds q, so the transposition puts
\* the axis of qubit q at position q, and the result is the operator on the
\* targets and the identity on the untouched qubits.
C19_AxisOrderRestored ==
    tensor.stage = "applied" /\ tensor.ret.err = "ok" =>
        LET n == tensor.num_wires
            targets == tensor.device_wire_labels
            untouched == unused_idxs(n, targets)
            perm == targets \o untouched
        IN  /\ Len(perm) = n
            /\ Range(perm) = 0..(n - 1)
            /\ Range(untouched) = (0..(n - 1)) \ Range(targets)
            /\ \A i, j \in DOMAIN untouched : i < j => untouched[i] < untouched[j]
            /\ \A q \in 0..(n - 1) : perm[inv_perm(perm)[q + 1] + 1] = q
            /\ tensor.ret.out = ActsOnTargets(tensor.mat, tensor.vec, targets, n)

\* a contraction over targets 2, 0 of three qubits: qubit 1 is untouched and
\* lies between them
C19_Witness ==
    /\ tensor.stage = "applied"
    /\ tensor.ret.err = "ok"
    /\ tensor.num_wires = 3
    /\ tensor.device_wire_labels = <<2, 0>>
    /\ tensor.mat = CNOT
    /\ tensor.vec = <<0, 0, 1, 1, 0, 0, 0, 0>>
    /\ tensor.ret.out # tensor.vec


BoundOps(ops) ==
    {i \in DOMAIN ops :
        ops[i].data[1].requires_grad /\ ops[i].name # "BasisState"}

BoundNames(ops) == {ParameterString(ops[i].data[1]) : i \in BoundOps(ops)}

\* C16 as stated: a build that returns leaves the value mapping of the
\* Parameter Binding Table as it was before the build.
C16_BuildLeavesValueMapping ==
    [][(lastOp' = "apply" /\ outcome' = "ok")
          => dev'.parameter_map = dev.parameter_map]_vars

\* C16 amended: a parametric build populates both mappings: for every
\* parameter it binds, the handle mapping gets the handle and the value
\* mapping gets the current value, both under the same name, and no other
\* entry changes; a build that is not parametric changes neither mapping.
\* generate_samples changes neither mapping: at execution time the values of
\* the value mapping are pushed into the memory of the program.
C16_BuildEntersHandlesAndValues ==
    [][/\ (lastOp' = "apply" /\ outcome' = "ok") =>
            \A b \in EventsIn(calls', "build") :
                LET ops == calls'[b].operations
                IN  IF IsParametricBuild
                    THEN /\ DictKeys(dev'.parameter_map)
                                = DictKeys(dev.parameter_map) \cup BoundNames(ops)
                         /\ DictKeys(dev'.parameter_reference_map)
                                = DictKeys(dev.parameter_reference_map)
                                      \cup BoundNames(ops)
                         /\ \A i \in BoundOps(ops) :
                                DictGet(dev'.parameter_map,
                                        ParameterString(ops[i].data[1]))
                                    = <<ops[i].data[1].val>>
                         /\ \A kv \in DictItems(dev.parameter_map) :
                                kv[1] \notin BoundNames(ops)
                                    => kv \in DictItems(dev'.parameter_map)
                    ELSE /\ dev'.parameter_map = dev.parameter_map
                         /\ dev'.parameter_reference_map = dev.parameter_reference_map
       /\ lastOp' = "generate_samples" =>
            /\ dev'.parameter_map = dev.parameter_map
            /\ dev'.parameter_reference_map = dev.parameter_reference_map
            /\ parametric_compilation =>
                \A kv \in DictItems(dev.parameter_map) :
                    /\ kv[1] \in DictKeys(dev'.prog.memory)
                    /\ DictGet(dev'.prog.memory, kv[1]) = kv[2]]_vars

\* a parametric build has returned, nothing has been executed, and the value
\* mapping holds the value of the parameter it bound
C16_Witness ==
    /\ lastOp = "apply" /\ outcome = "ok"
    /\ IsParametricBuild
    /\ dev.prog.memory = EmptyDict
    /\ \E b \in EventsOf("build") :
        \E i \in BoundOps(BuiltOps(b)) :
            /\ BuiltOps(b)[i].data[1].val = 1
            /\ <<ParameterString(BuiltOps(b)[i].data[1]), <<1>>>>
                   \in DictItems(dev.parameter_map)


(* ------------------------------- C17 ----------------------------------- *)
\* C17: between calls the handle mapping and the value mapping have the same
\* keys, also after a build that failed part-way, and both are empty right
\* after a reset.
C17_MappingsCoIndexed ==
    /\ DictKeys(dev.parameter_reference_map) = DictKeys(dev.parameter_map)
    /\ Len(dev.parameter_reference_map) = Len(dev.parameter_map)
    /\ lastOp = "reset" =>
        /\ dev.parameter_reference_map = EmptyDict
        /\ dev.parameter_map = EmptyDict

\* a build that bound a parameter and then failed at a later operation
C17_Witness ==
    /\ outcome \in BuildErrors
    /\ dev.parameter_map # EmptyDict
    /\ \E b \in EventsOf("build") :
        /\ Len(BuiltOps(b)) = 2
        /\ BuiltOps(b)[1].name \in operations


(* ------------------------------- C18 ----------------------------------- *)
\* the names a build enters in the binding table on behalf of operations that
\* are no state preparations
NamesOfOtherOps(ops) ==
    {ParameterString(ops[i].data[1]) :
        i \in {j \in DOMAIN ops : ops[j].name \notin StatePrepNames}}

\* C18 as stated: a parametric build that returns has passed the literal
\* parameter of every state preparation (BasisState, QubitStateVector) to
\* the emitted instruction, not a handle, and has entered nothing in the
\* binding table on behalf of a state preparation.
C18_StatePrepParamsLiteral ==
    [][(IsParametricBuild /\ lastOp' \in {"apply", "execute"}
            /\ outcome' \notin BuildErrors) =>
          \A b \in EventsIn(calls', "build") :
              LET ops == calls'[b].operations
                  all == SelectSeq(dev'.prog.insts, IsOpGate)
                  gates == SubSeq(all, Len(all) - Len(ops) + 1, Len(all))
              IN  /\ \A i \in DOMAIN ops :
                        ops[i].name \in StatePrepNames
                            => gates[i].params[1] = ops[i].data[1]
                  /\ DictKeys(dev'.parameter_reference_map)
                         \subseteq DictKeys(dev.parameter_reference_map)
                                       \cup NamesOfOtherOps(ops)
                  /\ DictKeys(dev'.parameter_map)
                         \subseteq DictKeys(dev.parameter_map)
                                       \cup NamesOfOtherOps(ops)]_vars


(* ------------------------------- C20 ----------------------------------- *)
IsDeclaration(inst) == inst.op = "DECLARE"

IsInstruction(inst) == ~IsDeclaration(inst)

\* the instructions of a program, its memory declarations left aside
Instructions(p) == SelectSeq(p.insts, IsInstruction)

\* the physical qubits of the device, ascending
PhysicalQubits == SortedSeq({wiring[i] : i \in DOMAIN wiring})

\* C20: a build on a device whose program is empty, as a reset leaves it,
\* gives a program whose instructions are, in this order: the
\* INITIAL_REWIRING directive; a RESET exactly when active_reset is set; one
\* instruction per operation, in input order; one per rotation; and one
\* MEASURE per device qubit, the qubit with the i-th smallest physical index
\* into cell i of the region "ro", which is declared once with the qubit
\* count as its size.
C20_ProgramLayout ==
    [][(/\ lastOp' \in {"apply", "execute"}
        /\ outcome' \notin BuildErrors
        /\ dev.prog.insts = <<>>) =>
          \A b \in EventsIn(calls', "build") :
              LET ops == calls'[b].operations
                  rot == calls'[b].rotations
                  ins == Instructions(dev'.prog)
                  r == IF active_reset THEN 1 ELSE 0
                  nq == Len(PhysicalQubits)
                  ro == {k \in DOMAIN dev'.prog.insts :
                            /\ IsDeclaration(dev'.prog.insts[k])
                            /\ dev'.prog.insts[k].name = "ro"}
              IN  /\ Len(ins) = 1 + r + Len(ops) + Len(rot) + nq
                  /\ ins[1].op = "PRAGMA" /\ ins[1].name = "INITIAL_REWIRING"
                  /\ active_reset => ins[2].op = "RESET"
                  /\ Cardinality({k \in DOMAIN ins : ins[k].op = "RESET"}) = r
                  /\ \A i \in DOMAIN ops :
                        /\ ins[1 + r + i].op = ops[i].name
                        /\ ins[1 + r + i].qubits = ops[i].wires
                  /\ \A i \in DOMAIN rot :
                        /\ ins[1 + r + Len(ops) + i].op = rot[i].name
                        /\ ins[1 + r + Len(ops) + i].qubits = rot[i].wires
                  /\ \A i \in 1..nq :
                        LET m == ins[1 + r + Len(ops) + Len(rot) + i]
                        IN  /\ m.op = "MEASURE"
                            /\ m.qubit = PhysicalQubits[i]
                            /\ m.target = [name |-> "ro", offset |-> i - 1]
                  /\ nq = NumQubits
                  /\ Cardinality(ro) = 1
                  /\ \A k \in ro : dev'.prog.insts[k].size = nq]_vars

\* a built program with a reset, an operation, a rotation and the
\* measurements of both qubits
C20_Witness ==
    /\ lastOp = "apply" /\ outcome = "ok"
    /\ active_reset
    /\ \E b \in EventsOf("build") :
        /\ Len(BuiltOps(b)) = 1
        /\ Len(calls[b].rotations) = 1
    /\ Len(Instructions(dev.prog)) = 6
    /\ Instructions(dev.prog)[6] =
           [op |-> "MEASURE", qubit |-> 1, target |-> [name |-> "ro", offset |-> 1]]


(* ================== interleaved generate_samples calls ================== *)
\* Two callers are inside generate_samples of one device at once.  Nothing in
\* the method takes a lock, so the callers' statements interleave freely; each
\* action below is one statement of the cached branch, run by one caller.

\* the device and the record as the caller finds them; the events of all
\* callers accumulate in calls
Shared == [Begin EXCEPT !.calls = calls]

ThreadCommit(t, c, th) ==
    /\ WithinBounds(c)
    /\ dev' = c.dev
    /\ calls' = c.calls
    /\ outcome' = c.outcome
    /\ nCompile' = c.nCompile
    /\ lastPushed' = c.lastPushed
    /\ rebound' = c.rebound
    /\ lastOp' = "generate_samples"
    /\ threads' = [threads EXCEPT ![t] = th]
    /\ UNCHANGED <<parametric_compilation, pyqvm, active_reset, before, readout,
                   tensor, executables>>

\* the caller pushes the bound values and passes the pyqvm test and the
\* "circuit_hash is None" test, both false here
ThreadEnter(t) ==
    /\ threads[t].pc = "idle"
    /\ ~UsesRawProgram
    /\ CircuitHashOf(dev) # NoHash
    /\ ThreadCommit(t, WriteParameters(NotePushes(Shared)),
                    [threads[t] EXCEPT !.pc = "test"])

\* if self.circuit_hash not in self._compiled_program_dict
ThreadTest(t) ==
    /\ threads[t].pc = "test"
    /\ ThreadCommit(t, Shared,
                    [threads[t] EXCEPT !.missed = CacheMiss(dev),
                                       !.pc = IF CacheMiss(dev) THEN "compile"
                                              ELSE "fetch"])

\* self.qc.compile(self.prog), the right-hand side of the insertion
ThreadCompile(t) ==
    /\ threads[t].pc = "compile"
    /\ \E compile_ok \in BOOLEAN :
        ThreadCommit(t, Compile(Shared, CircuitHashOf(dev), compile_ok),
                     IF compile_ok
                     THEN [threads[t] EXCEPT !.exe = CompiledArtifact(Shared),
                                             !.pc = "insert"]
                     ELSE [threads[t] EXCEPT !.pc = "raised"])

\* self._compiled_program_dict[self.circuit_hash] = <what compile returned>
ThreadInsert(t) ==
    /\ threads[t].pc = "insert"
    /\ ThreadCommit(t,
                    [Shared EXCEPT !.dev.compiled_program_dict =
                         DictSet(@, CircuitHashOf(dev), threads[t].exe)],
                    [threads[t] EXCEPT !.pc = "fetch"])

\* self._compiled_program = self._compiled_program_dict[self.circuit_hash]
ThreadFetch(t) ==
    /\ threads[t].pc = "fetch"
    /\ ThreadCommit(t,
                    [Shared EXCEPT !.dev.compiled_program =
                         DictGet(dev.compiled_program_dict, CircuitHashOf(dev))],
                    [threads[t] EXCEPT !.pc = "run"])

\* self.qc.run(executable=self._compiled_program)
ThreadRun(t) ==
    /\ threads[t].pc = "run"
    /\ \E run_ok \in BOOLEAN :
        ThreadCommit(t, Run(Shared, FALSE, dev.compiled_program, run_ok),
                     [threads[t] EXCEPT !.ran = dev.compiled_program,
                                        !.pc = IF run_ok THEN "returned"
                                               ELSE "raised"])

\* a device just constructed
Fresh ==
    [dev |-> InitDev, calls |-> <<>>, outcome |-> "ok",
     nCompile |-> [h \in 0..MaxHash |-> 0], lastPushed |-> {}, rebound |-> FALSE]

\* the device on which execute has stored the hash and built the program, at
\* the point where generate_samples is called
InitThreads ==
    /\ parametric_compilation = TRUE
    /\ pyqvm = FALSE
    /\ active_reset \in BOOLEAN
    /\ \E h \in Hashes, c \in Circuits :
        LET built == ExecuteBuild(Fresh, [hash |-> h, operations |-> c.operations,
                                          diagonalizing_gates |-> c.diagonalizing_gates])
        IN  /\ built.outcome = "ok"
            /\ dev = built.dev
            /\ calls = built.calls
            /\ outcome = built.outcome
            /\ nCompile = built.nCompile
            /\ lastPushed = built.lastPushed
            /\ rebound = built.rebound
    /\ lastOp = "execute"
    /\ before = [compiled_program_dict |-> EmptyDict,
                 compiled_program |-> NoArtifact]
    /\ readout = IdleReadout
    /\ tensor = IdleTensor
    /\ threads = IdleThreads
    /\ executables = NoExecutables

NextThreads ==
    \E t \in Threads :
        \/ ThreadEnter(t)
        \/ ThreadTest(t)
        \/ ThreadCompile(t)
        \/ ThreadInsert(t)
        \/ ThreadFetch(t)
        \/ ThreadRun(t)

SpecThreads == InitThreads /\ [][NextThreads]_vars

\* the compile calls for hash h that returned, among the callers' events
CompilesOf(h) ==
    {k \in EventsIn(calls, "compile") : calls[k].hash = h /\ calls[k].ok}

\* C21: when two generate_samples calls for the same circuit_hash interleave,
\* the test, the insertion and the fetch act as one atomic step per hash:
\* at most one compile call returns an executable for the hash (a compile that
\* raised stored nothing and may be tried again), and every caller runs the
\* executable of that one compile.
C21_CompiledOncePerHash ==
    \A h \in Hashes :
        /\ Cardinality(CompilesOf(h)) <= 1
        /\ \A t \in Threads :
               (threads[t].ran # NoArtifact /\ CircuitHashOf(dev) = h) =>
                   \E k \in CompilesOf(h) : calls[k].exe = threads[t].ran


(* ============== what the executables were compiled with ================ *)
\* self.qc.compile(self.prog) makes the executable from the program object it
\* is handed: the executable carries the memory regions written in that object
\* up to the call.  A region written afterwards in another program object
\* (reset installs a new one, apply builds on it) does not reach it.

\* the compile call of the call c that returned, if any
CompiledIn(c) == {k \in EventsIn(c.calls, "compile") : c.calls[k].ok}

\* executables after the call c: the new executable holds the memory of
\* self.prog, which the call does not write again after compile
ExecutablesAfter(c) ==
    IF CompiledIn(c) = {} THEN executables
    ELSE LET k == CHOOSE k \in CompiledIn(c) : TRUE
         IN  DictSet(executables, c.calls[k].exe.id, c.dev.prog.memory)

CommitContents(c, op) ==
    /\ CommitDevice(c, op)
    /\ executables' = ExecutablesAfter(c)

ResetContents == CommitContents(reset(Begin), "reset")

ExecuteContents ==
    /\ CanBuild
    /\ \E h \in Hashes, c \in Circuits, fault \in Faults :
        CommitContents(execute(Begin,
                               [hash |-> h, operations |-> c.operations,
                                diagonalizing_gates |-> c.diagonalizing_gates],
                               fault # "compile", fault # "run"),
                       "execute")

\* a parametric device on a machine that is not a pyqvm
InitContents ==
    /\ Init
    /\ parametric_compilation
    /\ ~pyqvm
    /\ ~active_reset

NextContents == ResetContents \/ ExecuteContents

SpecContents == InitContents /\ [][NextContents]_vars

\* the memory the executable exe carries
MemoryOf(exe) == DictGet(executables, exe.id)

\* the executables the last call handed to self.qc.run
RunExecutables == {calls[k].exe : k \in {j \in EventsIn(calls, "run") : ~calls[j].raw}}

\* C22: in every parametric execution on a machine that is not a pyqvm, cache
\* hits included, the executable passed to run carries, for every symbol of
\* the binding table of the current evaluation, a memory region of that name
\* holding the value currently bound.
C22_RunCarriesCurrentBindings ==
    lastOp = "execute" =>
        \A exe \in RunExecutables :
            DictItems(dev.parameter_map) \subseteq DictItems(MemoryOf(exe))

====
